---- MODULE Spec2Model ----
(***************************************************************************)
(* Model of src/server/routes/pages/AssetDesignerPage.tsx: the designer's  *)
(* reducer, the query synchronizer, the selection resolver, the state      *)
(* seeding done by the useReducer initializer, and the image export.       *)
(*                                                                         *)
(* JavaScript objects live in a heap (a sequence of objects addressed by   *)
(* their index), so that the sharing left by a shallow copy is visible.    *)
(* An object is the sequence of its entries in insertion order.            *)
(***************************************************************************)
EXTENDS Integers, Sequences, FiniteSets, Bags, TLC

VARIABLES
  pc,        \* "waiting" (themes not there, nothing rendered), "mounted", "crashed"
  state,     \* the DesignerState held by useReducer
  heap,      \* the objects reachable from any DesignerState of this page load
  history,   \* the browser's history entries (query strings); the last is location.search
  inflight,  \* rasterizations started and not yet settled
  downloads, \* the bag of files saveAs produced, each named by its export
  logged,    \* ids of the exports whose rejection went to console.error
  started,   \* number of rasterizations started so far
  nDispatch, \* number of reducer calls so far
  nReload,   \* number of page reloads so far
  last,      \* the operation that produced the current state
  prev,      \* the DesignerState as it was when the page was last reloaded
  allowed    \* keys seeded by the initializer or written by UPDATE_VARIABLE

vars == <<pc, state, heap, history, inflight, downloads, logged, started,
          nDispatch, nReload, last, prev, allowed>>

\* ---------------------------------------------------------------- bounds
MaxDispatch == 3
MaxExport == 2
MaxReload == 1
\* dispatches made while exports are being followed
MaxExportDispatch == 2

\* ---------------------------------------------------------------- values
Str(s) == [t |-> "str", s |-> s, n |-> 0]
Num(n) == [t |-> "num", s |-> "", n |-> n]
Undef == [t |-> "undef", s |-> "", n |-> 0]
Ref(a) == [t |-> "ref", s |-> "", n |-> a]
\* marks an object-valued path in Tree
ObjMark == [t |-> "obj", s |-> "", n |-> 0]

Keys(obj) == {obj[i].k : i \in 1..Len(obj)}
Has(obj, k) == k \in Keys(obj)
IndexOf(obj, k) == CHOOSE i \in 1..Len(obj) : obj[i].k = k
\* obj[k]: undefined for a missing key
Lookup(obj, k) == IF Has(obj, k) THEN obj[IndexOf(obj, k)].v ELSE Undef
\* obj[k] = v: an existing key keeps its position, a new key goes last
Put(obj, k, v) ==
  IF Has(obj, k)
    THEN [obj EXCEPT ![IndexOf(obj, k)] = [k |-> k, v |-> v]]
    ELSE Append(obj, [k |-> k, v |-> v])

\* The leaves of the value at addr: every path below it with the value found
\* there; a path that holds an object carries ObjMark.
RECURSIVE TreeAt(_, _, _)
TreeAt(h, addr, prefix) ==
  {[p |-> prefix, v |-> ObjMark]} \cup
  UNION { IF h[addr][i].v.t = "ref"
            THEN TreeAt(h, h[addr][i].v.n, Append(prefix, h[addr][i].k))
            ELSE {[p |-> Append(prefix, h[addr][i].k), v |-> h[addr][i].v]}
          : i \in 1..Len(h[addr]) }
Tree(h, addr) == TreeAt(h, addr, <<>>)

\* Property access along a path; undefined as soon as a segment is missing.
RECURSIVE Follow(_, _, _)
Follow(h, addr, path) ==
  LET v == Lookup(h[addr], path[1]) IN
  IF Len(path) = 1 THEN v
  ELSE IF v.t = "ref" THEN Follow(h, v.n, Tail(path))
  ELSE Undef

\* ------------------------------------------------------------ registries
\* The two externally supplied registries (imports of lines 13 and 18): each
\* maps an id to a renderable with a filename and a variables descriptor list.
Descriptor(id, hasDefault, default) ==
  [id |-> id, validation |-> [hasDefault |-> hasDefault, default |-> default]]

Renderable(name, rendersId, variables) ==
  [name |-> name, filename |-> name, rendersId |-> rendersId,
   hasVariables |-> TRUE, variables |-> variables]

templates ==
  [id \in {"talk"} |->
     Renderable("talk", TRUE,
                <<Descriptor("color", TRUE, Str("blue")),
                  Descriptor("title", FALSE, Undef)>>)]

components ==
  [id \in {"badge", "card"} |->
     IF id = "badge"
       THEN Renderable("badge", TRUE, <<Descriptor("a", TRUE, Num(1))>>)
       ELSE Renderable("card", TRUE, <<>>)]

\* what a lookup of a missing key gives
undefined ==
  [name |-> "undefined", filename |-> "undefined", rendersId |-> FALSE,
   hasVariables |-> FALSE, variables |-> <<>>]

\* the placeholder component: a fragment, no variables and no filename property
NoSelectionFound ==
  [name |-> "NoSelectionFound", filename |-> "undefined", rendersId |-> FALSE,
   hasVariables |-> FALSE, variables |-> <<>>]

getSelection(selectionId) ==
  IF selectionId \in DOMAIN templates THEN templates[selectionId]
  ELSE IF selectionId \in DOMAIN components THEN components[selectionId]
  ELSE undefined

\* ---------------------------------------------------------------- lodash
\* Variant of getDefault that never finds the default; C9 tells it apart.
getDefaultMissing(validation) == Undef

\* get(validation, "default")
getDefault(validation) ==
  IF validation.hasDefault THEN validation.default ELSE Undef

\* fromPairs(pairs): later pairs overwrite earlier ones with the same key
RECURSIVE fromPairs(_)
fromPairs(pairs) ==
  IF pairs = <<>> THEN <<>>
  ELSE Put(fromPairs(SubSeq(pairs, 1, Len(pairs) - 1)),
           pairs[Len(pairs)][1], pairs[Len(pairs)][2])

\* stringToPath: the segments a field splits into at its dots, for the fields
\* the model dispatches.
stringToPath(field) ==
  CASE field = "a.b" -> <<"a", "b">>
    [] field = "a.c" -> <<"a", "c">>
    [] OTHER -> <<field>>

\* Variant of castPath without nested access: the whole field is one key; C10
\* tells it apart.
castPathFlat(field, obj) == <<field>>

\* isKey: a plain property name, or a name the object itself holds
isKey(field, obj) == Len(stringToPath(field)) = 1 \/ Has(obj, field)
castPath(field, obj) == IF isKey(field, obj) THEN <<field>> ELSE stringToPath(field)

\* baseSet: walks the path from the object at addr, keeps every intermediate
\* value that is an object (and writes into it in place), replaces any other
\* intermediate value by a fresh {}, and assigns value at the last segment.
RECURSIVE baseSet(_, _, _, _)
baseSet(h, addr, path, value) ==
  IF Len(path) = 1
    THEN [h EXCEPT ![addr] = Put(h[addr], path[1], value)]
    ELSE LET objValue == Lookup(h[addr], path[1]) IN
         IF objValue.t = "ref"
           THEN baseSet(h, objValue.n, Tail(path), value)
           ELSE LET h1 == Append(h, <<>>)
                    fresh == Len(h1)
                    h2 == [h1 EXCEPT ![addr] = Put(h1[addr], path[1], Ref(fresh))]
                IN baseSet(h2, fresh, Tail(path), value)

set(h, addr, field, value) == baseSet(h, addr, castPath(field, h[addr]), value)

\* ------------------------------------------------------------------ JSON
\* Text is a sequence of tokens. JSON.stringify writes an object's entries in
\* insertion order and leaves out the entries whose value is undefined.
Quote(s) == <<"\"", s, "\"">>

RECURSIVE JSONstringify(_, _)
RECURSIVE JSONentries(_, _, _, _)
JSONentries(h, obj, i, first) ==
  IF i > Len(obj) THEN <<>>
  ELSE IF obj[i].v.t = "undef" THEN JSONentries(h, obj, i + 1, first)
  ELSE (IF first THEN <<>> ELSE <<",">>)
       \o Quote(obj[i].k) \o <<":">>
       \o (CASE obj[i].v.t = "str" -> Quote(obj[i].v.s)
             [] obj[i].v.t = "num" -> <<ToString(obj[i].v.n)>>
             [] OTHER -> JSONstringify(h, obj[i].v.n))
       \o JSONentries(h, obj, i + 1, FALSE)
JSONstringify(h, addr) == <<"{">> \o JSONentries(h, h[addr], 1, TRUE) \o <<"}">>

\* ---------------------------------------------------------- query-string
\* A query string is the sequence of its key=value pairs. stringify writes the
\* keys in sorted order; parse gives the mapping from key to value.
ParamOrder == <<"foo", "selectionId", "themeId", "variables">>
queryParse(search) == [k \in {search[i].k : i \in 1..Len(search)} |->
                         search[CHOOSE i \in 1..Len(search) : search[i].k = k].v]
queryStringify(q) ==
  LET ks == SelectSeq(ParamOrder, LAMBDA k : k \in DOMAIN q)
  IN [i \in 1..Len(ks) |-> [k |-> ks[i], v |-> q[ks[i]]]]

location(hist) == hist[Len(hist)]

\* Variant of updateQuery that writes the field alone, dropping the rest of the
\* current query; C5 tells it apart.
updateQueryReplaces(hist, field, value) ==
  Append(hist, queryStringify([k \in {field} |-> value]))

\* updateQuery(field, value): the parsed current query with field overwritten,
\* pushed as a new history entry
updateQuery(hist, field, value) ==
  LET parsed == queryParse(location(hist))
      query == queryStringify([k \in DOMAIN parsed \cup {field} |->
                                 IF k = field THEN value ELSE parsed[k]])
  IN Append(hist, query)

\* --------------------------------------------------------------- reducer
UPDATE_SELECTION_ID == "UPDATE_SELECTION_ID"
UPDATE_THEME_ID == "UPDATE_THEME_ID"
UPDATE_VARIABLE == "UPDATE_VARIABLE"
ActionTypes == {UPDATE_SELECTION_ID, UPDATE_THEME_ID, UPDATE_VARIABLE}

\* the text queryString.stringify writes for a string or number value
valueText(value) == IF value.t = "num" THEN <<ToString(value.n)>> ELSE <<value.s>>

Returned(st, h, hist) == [threw |-> FALSE, state |-> st, heap |-> h, history |-> hist]
Thrown(st, h, hist) == [threw |-> TRUE, state |-> st, heap |-> h, history |-> hist]

\* Variant of reduceSelectionId that also clears the theme; C1 tells it apart.
reduceSelectionIdResetsTheme(st, h, hist, value) ==
  Returned([st EXCEPT !.selectionId = value.s, !.themeId = ""], h,
           updateQuery(hist, "selectionId", valueText(value)))

\* Variant of reduceSelectionId that seeds the variables anew from the selection
\* it switches to; C6 tells it apart.
reduceSelectionIdReseeds(st, h, hist, value) ==
  LET selection == getSelection(value.s)
      seeded == Append(h, fromPairs([i \in 1..Len(selection.variables) |->
                                       <<selection.variables[i].id,
                                         getDefault(selection.variables[i].validation)>>]))
  IN Returned([st EXCEPT !.selectionId = value.s, !.variables = Len(seeded)], seeded,
              updateQuery(hist, "selectionId", valueText(value)))

\* case ActionTypes.UPDATE_SELECTION_ID
reduceSelectionId(st, h, hist, value) ==
  Returned([st EXCEPT !.selectionId = value.s], h,
           updateQuery(hist, "selectionId", valueText(value)))

\* case ActionTypes.UPDATE_THEME_ID
reduceThemeId(st, h, hist, value) ==
  Returned([st EXCEPT !.themeId = value.s], h,
           updateQuery(hist, "themeId", valueText(value)))

\* case ActionTypes.UPDATE_VARIABLE: newVariables is a one-level copy of
\* state.variables, a new object whose entries hold the same values, nested
\* objects included; set writes into it.
reduceVariable(st, h, hist, field, value) ==
  LET copied == Append(h, h[st.variables])
      newVariables == Len(copied)
      written == set(copied, newVariables, field, value)
  IN Returned([st EXCEPT !.variables = newVariables], written,
              updateQuery(hist, "variables", JSONstringify(written, newVariables)))

\* Variant of the reducer whose default case returns the state it was given;
\* C7 tells it apart.
assetDesignerReducerLenient(st, h, hist, action) ==
  CASE action.type = UPDATE_SELECTION_ID -> reduceSelectionId(st, h, hist, action.value)
    [] action.type = UPDATE_THEME_ID -> reduceThemeId(st, h, hist, action.value)
    [] action.type = UPDATE_VARIABLE ->
         reduceVariable(st, h, hist, action.field, action.value)
    [] OTHER -> Returned(st, h, hist)

assetDesignerReducer(st, h, hist, action) ==
  CASE action.type = UPDATE_SELECTION_ID -> reduceSelectionId(st, h, hist, action.value)
    [] action.type = UPDATE_THEME_ID -> reduceThemeId(st, h, hist, action.value)
    [] action.type = UPDATE_VARIABLE ->
         reduceVariable(st, h, hist, action.field, action.value)
    [] OTHER -> Thrown(st, h, hist)

\* ------------------------------------------------------------- page load
NoState == [selectionId |-> "", themeId |-> "", variables |-> 0]
defaultInitialState == [selectionId |-> ""]

\* The initialState prop the page's caller builds from the URL on load.
initialStateFromQuery(search) ==
  LET q == queryParse(search) IN
  IF "selectionId" \in DOMAIN q
    THEN [selectionId |-> q["selectionId"][1]]
    ELSE defaultInitialState

\* the initializer handed to useReducer; selection.variables.map throws a
\* TypeError when getSelection gave undefined
initializer(initialState) ==
  LET selection == getSelection(initialState.selectionId) IN
  IF ~selection.hasVariables
    THEN Thrown(NoState, <<>>, <<>>)
    ELSE Returned([selectionId |-> initialState.selectionId,
                   themeId |-> "",
                   variables |-> 1],
                  << fromPairs([i \in 1..Len(selection.variables) |->
                                  <<selection.variables[i].id,
                                    getDefault(selection.variables[i].validation)>>]) >>,
                  <<>>)

\* ---------------------------------------------------------------- render
\* getSelection(selectionId) || NoSelectionFound
renderSelection(st) ==
  IF getSelection(st.selectionId) = undefined
    THEN NoSelectionFound
    ELSE getSelection(st.selectionId)

\* the variables the sidebar lists, each with its current value
renderVariables(st, h) ==
  LET selection == renderSelection(st) IN
  IF selection.hasVariables
    THEN [i \in 1..Len(selection.variables) |->
            [id |-> selection.variables[i].id,
             value |-> Lookup(h[st.variables], selection.variables[i].id)]]
    ELSE <<>>

\* document.getElementById(assetDesignTemplateId): the rendered selection is
\* handed the id and the placeholder renders no element
domNode(st) == renderSelection(st).rendersId

\* --------------------------------------------------------------- actions
Op(op) == [op |-> op, type |-> "", field |-> "", value |-> Undef, threw |-> FALSE]
NoPrev == [valid |-> FALSE, selectionId |-> "", themeId |-> "", tree |-> {}]

Param(k, v) == [k |-> k, v |-> v]
\* the query strings the page may first be opened with
InitialSearches ==
  { <<>>,
    <<Param("selectionId", <<"talk">>)>>,
    <<Param("foo", <<"1">>), Param("selectionId", <<"badge">>)>>,
    <<Param("selectionId", <<"card">>)>>,
    <<Param("selectionId", <<"nope">>)>> }

SelectionIds == {"talk", "badge", "nope"}
ThemeIds == {"dark"}
\* the (field, value) pairs the variable selectors send
VariableUpdates ==
  {<<"color", Str("red")>>, <<"title", Num(5)>>, <<"a.b", Num(5)>>, <<"a.c", Str("red")>>}

\* what the selectors dispatch, and one action of no known kind
Dispatchable ==
  {[type |-> UPDATE_SELECTION_ID, field |-> "", value |-> Str(id)] : id \in SelectionIds}
  \cup {[type |-> UPDATE_THEME_ID, field |-> "conferenceSeriesId", value |-> Str(id)] :
          id \in ThemeIds}
  \cup {[type |-> UPDATE_VARIABLE, field |-> u[1], value |-> u[2]] : u \in VariableUpdates}
  \cup {[type |-> "RESET", field |-> "", value |-> Undef]}

Init ==
  /\ pc = "waiting"
  /\ state = NoState
  /\ heap = <<>>
  /\ history \in {<<search>> : search \in InitialSearches}
  /\ inflight = {}
  /\ downloads = EmptyBag
  /\ logged = {}
  /\ started = 0
  /\ nDispatch = 0
  /\ nReload = 0
  /\ last = Op("open")
  /\ prev = NoPrev
  /\ allowed = {}

\* The themes arrive and the page renders for the first time: useReducer runs
\* the initializer on the initialState prop.
Mount ==
  /\ pc = "waiting"
  /\ LET r == initializer(initialStateFromQuery(location(history))) IN
       /\ pc' = IF r.threw THEN "crashed" ELSE "mounted"
       /\ state' = r.state
       /\ heap' = r.heap
       /\ last' = [Op("mount") EXCEPT !.threw = r.threw]
       /\ allowed' = IF r.threw THEN {} ELSE Keys(r.heap[r.state.variables])
  /\ UNCHANGED <<history, inflight, downloads, logged, started, nDispatch, nReload, prev>>

\* dispatch(action): the reducer runs on the current state; an exception it
\* throws takes the page down.
Dispatch(action) ==
  /\ pc = "mounted"
  /\ nDispatch < MaxDispatch
  /\ LET r == assetDesignerReducer(state, heap, history, action) IN
       /\ pc' = IF r.threw THEN "crashed" ELSE "mounted"
       /\ state' = r.state
       /\ heap' = r.heap
       /\ history' = r.history
       /\ last' = [op |-> "dispatch", type |-> action.type, field |-> action.field,
                   value |-> action.value, threw |-> r.threw]
       /\ allowed' = IF action.type = UPDATE_VARIABLE /\ ~r.threw
                       THEN allowed \cup {stringToPath(action.field)[1]}
                       ELSE allowed
  /\ nDispatch' = nDispatch + 1
  /\ UNCHANGED <<inflight, downloads, logged, started, nReload, prev>>

\* Variant of ExportClick that starts nothing while an export is in flight; C8
\* tells it apart.
ExportClickOnce ==
  /\ pc = "mounted"
  /\ started < MaxExport
  /\ IF domNode(state) /\ inflight = {}
       THEN /\ inflight' = {[id |-> started + 1, filename |-> renderSelection(state).filename]}
            /\ started' = started + 1
       ELSE UNCHANGED <<inflight, started>>
  /\ last' = Op("click")
  /\ UNCHANGED <<pc, state, heap, history, downloads, logged, nDispatch, nReload,
                 prev, allowed>>

\* ExportButton.onClick: with the DOM node there, domToImage.toBlob starts a
\* rasterization whose continuation holds this render's selection.
ExportClick ==
  /\ pc = "mounted"
  /\ started < MaxExport
  /\ IF domNode(state)
       THEN /\ inflight' = inflight \cup
                 {[id |-> started + 1, filename |-> renderSelection(state).filename]}
            /\ started' = started + 1
       ELSE UNCHANGED <<inflight, started>>
  /\ last' = Op("click")
  /\ UNCHANGED <<pc, state, heap, history, downloads, logged, nDispatch, nReload,
                 prev, allowed>>

\* .then(blob => saveAs(blob, `${selection.filename}.png`))
ExportResolve(e) ==
  /\ e \in inflight
  /\ inflight' = inflight \ {e}
  /\ downloads' = downloads (+) SetToBag({e})
  /\ last' = Op("resolve")
  /\ UNCHANGED <<pc, state, heap, history, logged, started, nDispatch, nReload,
                 prev, allowed>>

\* .catch(err => console.error(err))
ExportReject(e) ==
  /\ e \in inflight
  /\ inflight' = inflight \ {e}
  /\ logged' = logged \cup {e.id}
  /\ last' = Op("reject")
  /\ UNCHANGED <<pc, state, heap, history, downloads, started, nDispatch, nReload,
                 prev, allowed>>

\* The user loads the page afresh from the current URL: the page's state and
\* its pending continuations are gone, the history and the files are not.
Reload ==
  /\ nReload < MaxReload
  /\ nReload' = nReload + 1
  /\ pc' = "waiting"
  /\ state' = NoState
  /\ heap' = <<>>
  /\ inflight' = {}
  /\ allowed' = {}
  /\ prev' = IF pc = "mounted"
               THEN [valid |-> TRUE, selectionId |-> state.selectionId,
                     themeId |-> state.themeId, tree |-> Tree(heap, state.variables)]
               ELSE NoPrev
  /\ last' = Op("reload")
  /\ UNCHANGED <<history, downloads, logged, started, nDispatch>>

\* The page's life without the export button: loads, dispatches and reloads.
Next ==
  \/ Mount
  \/ \E action \in Dispatchable : Dispatch(action)
  \/ Reload

Spec == Init /\ [][Next]_vars

\* One page load with the export button: dispatches interleaved with export
\* clicks and the settling of the rasterizations they started.
DispatchDuringExport(action) ==
  /\ nDispatch < MaxExportDispatch
  /\ Dispatch(action)

NextExport ==
  \/ Mount
  \/ \E action \in Dispatchable : DispatchDuringExport(action)
  \/ ExportClick
  \/ \E e \in inflight : ExportResolve(e)
  \/ \E e \in inflight : ExportReject(e)

SpecExport == Init /\ [][NextExport]_vars

\* ---------------------------------------------------------------- claims
\* a step that is one reducer call, and one that returned a state
DispatchStep == nDispatch' = nDispatch + 1
ReturnedStep == DispatchStep /\ ~last'.threw

IsPrefix(a, b) == Len(a) <= Len(b) /\ SubSeq(b, 1, Len(a)) = a
Unrelated(p, path) == ~IsPrefix(p, path) /\ ~IsPrefix(path, p)
Known(selectionId) == getSelection(selectionId) # undefined
DeclaredIds(selection) == {selection.variables[i].id : i \in 1..Len(selection.variables)}
EmptyTree == {[p |-> <<>>, v |-> ObjMark]}

\* what one returning reducer step may change
C1_FrameStep ==
  ReturnedStep =>
    /\ last'.type = UPDATE_SELECTION_ID =>
         /\ state'.selectionId = last'.value.s
         /\ state'.themeId = state.themeId
         /\ state'.variables = state.variables
         /\ Tree(heap', state'.variables) = Tree(heap, state.variables)
    /\ last'.type = UPDATE_THEME_ID =>
         /\ state'.themeId = last'.value.s
         /\ state'.selectionId = state.selectionId
         /\ state'.variables = state.variables
         /\ Tree(heap', state'.variables) = Tree(heap, state.variables)
    /\ last'.type = UPDATE_VARIABLE =>
         /\ state'.selectionId = state.selectionId
         /\ state'.themeId = state.themeId
         /\ {l \in Tree(heap', state'.variables) :
               Unrelated(l.p, stringToPath(last'.field))}
            = {l \in Tree(heap, state.variables) :
                 Unrelated(l.p, stringToPath(last'.field))}

\* C1: every reducer call that returns changes one place only.
\* UPDATE_SELECTION_ID sets selectionId to the action's value and leaves themeId
\* and variables (the reference and everything below it) as they were;
\* UPDATE_THEME_ID does the same for themeId; UPDATE_VARIABLE leaves selectionId
\* and themeId alone, and every variable path that is neither on the way to the
\* path named by field nor below it holds the value it held in the input state.
C1_ReducerChangesOnePlace == [][C1_FrameStep]_vars

\* C1 witness: a nested write next to an entry written before, with the seeded
\* entries still there.
C1_Witness ==
  /\ last.op = "dispatch" /\ last.type = UPDATE_VARIABLE /\ last.field = "a.c"
  /\ ~last.threw
  /\ Follow(heap, state.variables, <<"a", "b">>) = Num(5)
  /\ Lookup(heap[state.variables], "color") = Str("blue")

\* C2: a reducer call leaves its input state as it was: the variables object
\* the input state refers to, and every value reachable from it, read the same
\* after the call as before.
C2_InputStateUntouched ==
  [][ReturnedStep => Tree(heap', state.variables) = Tree(heap, state.variables)]_vars

\* C3: a selection id found in neither registry is not fatal: after the state
\* is seeded from it and after UPDATE_SELECTION_ID sets it, the page is up,
\* shows the placeholder and lists no variables.
C3_UnknownSelectionNotFatal ==
  /\ (last.op = "mount"
        /\ ~Known(initialStateFromQuery(location(history)).selectionId)) =>
       /\ pc = "mounted"
       /\ renderSelection(state) = NoSelectionFound
       /\ renderVariables(state, heap) = <<>>
  /\ (last.op = "dispatch" /\ last.type = UPDATE_SELECTION_ID
        /\ ~Known(last.value.s)) =>
       /\ pc = "mounted"
       /\ renderSelection(state) = NoSelectionFound
       /\ renderVariables(state, heap) = <<>>

\* C4: a page loaded from the URL the query synchronizer wrote starts in the
\* state the page was in before the reload: same selectionId, same themeId,
\* same variables.
C4_ReloadReproducesState ==
  (last.op = "mount" /\ prev.valid /\ Len(history) > 1) =>
    /\ pc = "mounted"
    /\ state.selectionId = prev.selectionId
    /\ state.themeId = prev.themeId
    /\ Tree(heap, state.variables) = prev.tree

\* the query parameter an action writes, and the entry one step pushes
C5_Param(type) ==
  CASE type = UPDATE_SELECTION_ID -> "selectionId"
    [] type = UPDATE_THEME_ID -> "themeId"
    [] OTHER -> "variables"
C5_PushStep ==
  ReturnedStep =>
    /\ Len(history') = Len(history) + 1
    /\ SubSeq(history', 1, Len(history)) = history
    /\ LET before == queryParse(location(history))
           after == queryParse(location(history'))
           f == C5_Param(last'.type)
       IN /\ DOMAIN after = DOMAIN before \cup {f}
          /\ \A k \in DOMAIN before \ {f} : after[k] = before[k]
          /\ after[f] = IF last'.type = UPDATE_VARIABLE
                          THEN JSONstringify(heap', state'.variables)
                          ELSE <<last'.value.s>>

\* C5: every reducer call that returns pushes exactly one history entry, whose
\* query is the current one with the dispatched field replaced (selectionId or
\* themeId by the action's value, variables by the JSON text of the returned
\* state's variables) and every other parameter kept; nothing is de-duplicated.
C5_OneEntryPerDispatch == [][C5_PushStep]_vars

\* C5 witness: two identical dispatches in a row left two equal entries, and a
\* parameter the page does not own is still in the query.
C5_Witness ==
  /\ last.op = "dispatch" /\ ~last.threw
  /\ Len(history) >= 3
  /\ history[Len(history)] = history[Len(history) - 1]
  /\ "foo" \in DOMAIN queryParse(location(history))

\* C6 as stated: every key of variables is a variable id declared by the
\* currently selected template or component.
C6_OnlyDeclaredKeys ==
  pc = "mounted" =>
    Keys(heap[state.variables]) \subseteq DeclaredIds(renderSelection(state))

\* C6 as amended: every key of variables is a variable id declared by the
\* selection the state was seeded from, or the first path segment of the field
\* of an UPDATE_VARIABLE dispatched since the page load.
C6_KeysSeededOrWritten ==
  pc = "mounted" => Keys(heap[state.variables]) \subseteq allowed

\* C6 witness: after a change of selection the mapping still holds an entry the
\* new selection does not declare.
C6_Witness ==
  /\ pc = "mounted"
  /\ last.op = "dispatch" /\ last.type = UPDATE_SELECTION_ID
  /\ Known(state.selectionId)
  /\ Keys(heap[state.variables]) \ DeclaredIds(renderSelection(state)) # {}

\* a step that handles an action of no known kind
C7_ThrowStep ==
  (DispatchStep /\ last'.type \notin ActionTypes) =>
    /\ last'.threw
    /\ pc' = "crashed"
    /\ state' = state
    /\ heap' = heap
    /\ history' = history

\* C7: a reducer call with an action of no known kind throws: no next state,
\* no history entry, in whatever state it is made.
C7_UnknownActionThrows == [][C7_ThrowStep]_vars

\* C7 witness: the unknown action came after a dispatch that had pushed an entry.
C7_Witness ==
  /\ last.op = "dispatch" /\ last.type = "RESET" /\ last.threw
  /\ pc = "crashed"
  /\ Len(history) >= 2

\* a step that settles an export, a step that clicks, and the exports' accounts
C8_SettleStep ==
  Cardinality(inflight') < Cardinality(inflight) =>
    /\ state' = state /\ heap' = heap /\ history' = history /\ pc' = pc
    /\ \E e \in inflight :
         /\ inflight' = inflight \ {e}
         /\ \/ downloads' = downloads (+) SetToBag({e}) /\ logged' = logged
            \/ downloads' = downloads /\ logged' = logged \cup {e.id}
                 /\ e.id \notin logged
C8_ClickStep ==
  (last'.op = "click" /\ domNode(state)) =>
    /\ started' = started + 1
    /\ inflight \subseteq inflight'
    /\ Cardinality(inflight') = Cardinality(inflight) + 1
    /\ downloads' = downloads /\ logged' = logged
    /\ state' = state /\ heap' = heap /\ history' = history
C8_Accounted ==
  /\ BagCardinality(downloads) + Cardinality(logged) + Cardinality(inflight) = started
  /\ \A e \in BagToSet(downloads) : CopiesIn(e, downloads) = 1 /\ e.id \notin logged

\* C8: the settling of an export changes neither the DesignerState nor the
\* URL; it takes one export out of flight and gives exactly one download (on
\* success) or exactly one console log and no download (on rejection). A click
\* with the DOM node there always starts one more rasterization, whatever is
\* in flight. Every export started is in flight, downloaded once or logged once.
C8_ExportNeverFeedsBack == []C8_Accounted /\ [][C8_SettleStep /\ C8_ClickStep]_vars

\* C8 witness: on a page that has seen a dispatch, two exports were started;
\* the second was saved and the first was logged.
C8_Witness ==
  /\ last.op \in {"resolve", "reject"}
  /\ BagCardinality(downloads) = 1
  /\ Cardinality(logged) = 1
  /\ \E e \in BagToSet(downloads) : e.id = 2
  /\ nDispatch >= 1

\* C9: the state seeded from a selection id found in a registry has that id,
\* an empty themeId, and one variables entry per descriptor of the selection,
\* holding the descriptor's validation.default, or undefined without one.
C9_SeededFromDefaults ==
  LET id == initialStateFromQuery(location(history)).selectionId
      descriptors == getSelection(id).variables
  IN (last.op = "mount" /\ Known(id)) =>
       /\ pc = "mounted"
       /\ state.selectionId = id
       /\ state.themeId = ""
       /\ Len(heap[state.variables]) = Len(descriptors)
       /\ \A i \in 1..Len(descriptors) :
            /\ Has(heap[state.variables], descriptors[i].id)
            /\ Lookup(heap[state.variables], descriptors[i].id)
                 = IF descriptors[i].validation.hasDefault
                     THEN descriptors[i].validation.default
                     ELSE Undef
       /\ (id = "talk" => Lookup(heap[state.variables], "color") = Str("blue"))

\* C9 witness: the state seeded from "talk", with color "blue" and an entry
\* for title, which declares no default.
C9_Witness ==
  /\ last.op = "mount" /\ pc = "mounted"
  /\ state.selectionId = "talk"
  /\ Lookup(heap[state.variables], "color") = Str("blue")
  /\ Has(heap[state.variables], "title")
  /\ Lookup(heap[state.variables], "title") = Undef

\* what one UPDATE_VARIABLE step writes
C10_WriteStep ==
  (ReturnedStep /\ last'.type = UPDATE_VARIABLE) =>
    /\ Follow(heap', state'.variables, stringToPath(last'.field)) = last'.value
    /\ (last'.field = "a.b" /\ last'.value = Num(5)
          /\ Tree(heap, state.variables) = EmptyTree) =>
         Tree(heap', state'.variables)
           = {[p |-> <<>>, v |-> ObjMark], [p |-> <<"a">>, v |-> ObjMark],
              [p |-> <<"a", "b">>, v |-> Num(5)]}

====
